---- MODULE Spec2Model ----
(***************************************************************************)
(* PPAH verification server: the session integrity engine of               *)
(* server/ppah_server.py (in-memory SESSIONS, HMAC-signed segment reports, *)
(* sliding-window sequencing, freeze / reauth / timeout) and the two-peer  *)
(* signaling rooms of server/signaling.py.                                 *)
(*                                                                         *)
(* Abstractions: the timestamps of hash_chain and anomaly_log entries and  *)
(* the segment numbers interpolated into anomaly descriptions are left out *)
(* (nothing reads them back); HMAC-SHA256 is an ideal MAC, the pair of key *)
(* and message; datetime.now() is the integer clock `now`.                 *)
(***************************************************************************)
EXTENDS Integers, Sequences, FiniteSets, TLC

VARIABLES
    SESSIONS,               \* ppah_server.SESSIONS: session id -> PPAHSession
    WEBAUTHN_CREDENTIALS,   \* ppah_server.WEBAUTHN_CREDENTIALS (its key set)
    now,                    \* datetime.now(), in seconds
    active_connections,     \* ConnectionManager.active_connections: room -> list
    sockets,                \* each WebSocket: its state, what it was sent, its close code
    calls,                  \* each connection's manager call in flight, and where it is
    results,                \* what each connection's manager calls returned or raised
    relays,                 \* broadcast calls made so far
    sessions_table          \* database 'sessions' table: session_id -> data (the JSON)

engine_vars == <<SESSIONS, WEBAUTHN_CREDENTIALS, now>>
room_vars == <<active_connections, sockets, calls, results, relays>>
store_vars == <<sessions_table>>
vars == <<SESSIONS, WEBAUTHN_CREDENTIALS, now,
          active_connections, sockets, calls, results, relays, sessions_table>>

(***************************************************************************)
(* Bounds of the exploration.                                              *)
(***************************************************************************)
MaxSeg == 3
MaxAnomalies == 2
TickStep == 3600
MaxTicks == 2
MaxRelays == 1

(***************************************************************************)
(* Program constants and input domains.                                    *)
(***************************************************************************)
SESSION_TIMEOUT == 3600

SessionIds == {"s1", "s2"}
Keys == {"k1", "k2"}
CredIds == {"c1"}
Hashes == {"a", "b"}
\* The engine never reads a stored hash back: the reports of Spec carry one value.
ReportHashes == {"a"}
SegIds == 0 .. (MaxSeg + 3)
None == "None"

\* The two reasons add_hash freezes a session with.
SIGNATURE_FREEZE == "Packet signature verification failed - Possible spoofing"
SEQUENCE_FREEZE == "Segment sequence break detected (Gap > 1)"

\* hmac.new(key, message, sha256).hexdigest(): an ideal MAC.
HMAC(key, message) == <<key, message>>

\* f"{self.session_id}{segment_id}{hash_value}"
Message(session_id, segment_id, hash_value) ==
    session_id \o ToString(segment_id) \o hash_value

\* The signatures tried with a report (session_id, segment_id, hash): the MAC of
\* that very message or of one that differs from it in the session, the segment
\* or the hash, under any key, and a string that is no MAC at all.
Signatures(session_id, segment_id, hash) ==
    {HMAC(k, Message(session_id, segment_id, hash)) : k \in Keys}
        \cup {HMAC(k, Message(s, segment_id, hash)) : k \in Keys, s \in SessionIds}
        \cup {HMAC(k, Message(session_id, segment_id + 1, hash)) : k \in Keys}
        \cup {HMAC(k, Message(session_id, segment_id, h)) : k \in Keys, h \in Hashes}
        \cup {<<"forged", "forged">>}

(***************************************************************************)
(* class PPAHSession                                                       *)
(***************************************************************************)
PPAHSession(session_id, session_key, t) ==
    [ session_id    |-> session_id,
      session_key   |-> session_key,
      last_activity |-> t,
      status        |-> "active",
      segment_count |-> 0,
      hash_chain    |-> << >>,
      freeze_reason |-> None,
      anomaly_log   |-> << >> ]

log_anomaly(s, description) ==
    [s EXCEPT !.anomaly_log =
        Append(@, [description |-> description, segment_count |-> s.segment_count])]

freeze(s, reason) == [s EXCEPT !.status = "frozen", !.freeze_reason = reason]

terminate(s) == [s EXCEPT !.status = "terminated"]

\* Methods that mutate and return: [session |-> the object after, ret |-> the value].

\* Mutant of is_active: the timeout is looked at before the status.
is_active_timeout_first(s, t) ==
    IF t - s.last_activity > SESSION_TIMEOUT
    THEN [session |-> terminate(s), ret |-> FALSE]
    ELSE [session |-> s, ret |-> s.status = "active"]

\* Mutant of is_active: the activity is stamped on every look at the session.
is_active_stamps_activity(s, t) ==
    IF s.status # "active"
    THEN [session |-> [s EXCEPT !.last_activity = t], ret |-> FALSE]
    ELSE IF t - s.last_activity > SESSION_TIMEOUT
         THEN [session |-> terminate(s), ret |-> FALSE]
         ELSE [session |-> s, ret |-> TRUE]

is_active(s, t) ==
    IF s.status # "active"
    THEN [session |-> s, ret |-> FALSE]
    ELSE IF t - s.last_activity > SESSION_TIMEOUT
         THEN [session |-> terminate(s), ret |-> FALSE]
         ELSE [session |-> s, ret |-> TRUE]

\* Mutant of verify_signature: a session without a key is let through.
verify_signature_fail_open(s, segment_id, hash_value, signature) ==
    [session |-> s,
     ret |-> \/ s.session_key = None
             \/ HMAC(s.session_key, Message(s.session_id, segment_id, hash_value))
                    = signature]

\* Mutant of verify_signature: the MAC is compared for the session and the
\* segment only, the hash left out of the signed message.
verify_signature_unbound_hash(s, segment_id, hash_value, signature) ==
    IF s.session_key = None
    THEN [session |-> log_anomaly(s, "Missing session key for signature verification"), ret |-> FALSE]
    ELSE [session |-> s,
          ret |-> \E h \in Hashes :
                      HMAC(s.session_key, Message(s.session_id, segment_id, h)) = signature]

verify_signature(s, segment_id, hash_value, signature) ==
    IF s.session_key = None
    THEN [session |-> log_anomaly(s, "Missing session key for signature verification"), ret |-> FALSE]
    ELSE [session |-> s,
          ret |-> HMAC(s.session_key, Message(s.session_id, segment_id, hash_value))
                      = signature]

\* Mutants of sliding_window: the stale branch lost to a window test that only
\* bounds the id from above; a window one segment too wide; the stale branch
\* missing, so that an old id falls through to the rejection.
sliding_window_no_stale(segment_count, segment_id) ==
    IF segment_id <= segment_count + 1 THEN "in_order"
    ELSE IF segment_id = segment_count + 2 THEN "dropped_one"
    ELSE "gap_too_large"

sliding_window_too_wide(segment_count, segment_id) ==
    IF segment_id = segment_count + 1 THEN "in_order"
    ELSE IF segment_id \in {segment_count + 2, segment_count + 3} THEN "dropped_one"
    ELSE IF segment_id <= segment_count THEN "stale"
    ELSE "gap_too_large"

sliding_window_stale_rejected(segment_count, segment_id) ==
    IF segment_id = segment_count + 1 THEN "in_order"
    ELSE IF segment_id = segment_count + 2 THEN "dropped_one"
    ELSE "gap_too_large"

\* add_hash, step 2: the sliding window check on the segment id.
sliding_window(segment_count, segment_id) ==
    LET expected == segment_count + 1
    IN  IF segment_id = expected THEN "in_order"
        ELSE IF segment_id = expected + 1 THEN "dropped_one"
        ELSE IF segment_id <= segment_count THEN "stale"
        ELSE "gap_too_large"

\* Mutant of add_hash: the stale branch of the sequencing is taken before the
\* signature is looked at.
add_hash_sequence_first(s0, segment_id, hash_value, signature, t) ==
    LET s1 == [s0 EXCEPT !.last_activity = t]
        v  == verify_signature(s1, segment_id, hash_value, signature)
        s2 == v.session
        window == sliding_window(s2.segment_count, segment_id)
        appended(s) ==
            [s EXCEPT !.hash_chain =
                          Append(@, [segment_id |-> segment_id, hash |-> hash_value]),
                      !.segment_count = segment_id]
    IN  IF window = "stale"
        THEN [session |-> s1, ret |-> TRUE]
        ELSE IF ~v.ret
        THEN [session |-> freeze(log_anomaly(s2, "Invalid HMAC signature"),
                                 SIGNATURE_FREEZE),
              ret |-> FALSE]
        ELSE IF window = "in_order"
        THEN [session |-> appended(s2), ret |-> TRUE]
        ELSE IF window = "dropped_one"
        THEN [session |-> appended(log_anomaly(s2, "Packet loss detected")),
              ret |-> TRUE]
        ELSE [session |-> freeze(log_anomaly(s2, "Non-sequential segment"),
                                 SEQUENCE_FREEZE),
              ret |-> FALSE]

add_hash(s0, segment_id, hash_value, signature, t) ==
    LET s1 == [s0 EXCEPT !.last_activity = t]
        v  == verify_signature(s1, segment_id, hash_value, signature)
        s2 == v.session
        window == sliding_window(s2.segment_count, segment_id)
        appended(s) ==
            [s EXCEPT !.hash_chain =
                          Append(@, [segment_id |-> segment_id, hash |-> hash_value]),
                      !.segment_count = segment_id]
    IN  IF ~v.ret
        THEN [session |-> freeze(log_anomaly(s2, "Invalid HMAC signature"),
                                 SIGNATURE_FREEZE),
              ret |-> FALSE]
        ELSE IF window = "in_order"
        THEN [session |-> appended(s2), ret |-> TRUE]
        ELSE IF window = "dropped_one"
        THEN [session |-> appended(log_anomaly(s2, "Packet loss detected")),
              ret |-> TRUE]
        ELSE IF window = "stale"
        THEN [session |-> s2, ret |-> TRUE]
        ELSE [session |-> freeze(log_anomaly(s2, "Non-sequential segment"),
                                 SEQUENCE_FREEZE),
              ret |-> FALSE]

(***************************************************************************)
(* API endpoints of ppah_server.py.  Each is one atomic step: none awaits. *)
(* What an endpoint answers is a function of the state it is called in     *)
(* (the *_response operators); the action is what it does to the state.    *)
(***************************************************************************)
Response(code, body) == [code |-> code, body |-> body]

known(session_id) == session_id \in DOMAIN SESSIONS

store(session) == [x \in DOMAIN SESSIONS \cup {session.session_id} |->
                      IF x = session.session_id THEN session ELSE SESSIONS[x]]

\* POST /api/session/init: a fresh token_hex id and key.
initialize_session(session_id, session_key) ==
    /\ ~known(session_id)
    /\ SESSIONS' = store(PPAHSession(session_id, session_key, now))
    /\ UNCHANGED <<WEBAUTHN_CREDENTIALS, now, room_vars, store_vars>>

\* POST /api/webauthn/register
register_webauthn(credential_id) ==
    /\ credential_id # None
    /\ WEBAUTHN_CREDENTIALS' = WEBAUTHN_CREDENTIALS \cup {credential_id}
    /\ UNCHANGED <<SESSIONS, now, room_vars, store_vars>>

\* POST /api/verify-hash on a known session: the session object it leaves in
\* SESSIONS, and what it answers.
verify_hash_result(session_id, segment_id, hash, signature) ==
    LET a == is_active(SESSIONS[session_id], now)
        r == add_hash(a.session, segment_id, hash, signature, now)
    IN  IF ~a.ret
        THEN [session |-> a.session,
              resp |-> Response(403, <<"Session", a.session.status>>)]
        ELSE IF ~r.ret
        THEN [session |-> r.session,
              resp |-> Response(200, [valid |-> FALSE, segment_id |-> segment_id,
                                      reason |-> r.session.freeze_reason,
                                      action |-> "reauth_required"])]
        ELSE [session |-> r.session,
              resp |-> Response(200, [valid |-> TRUE, segment_id |-> segment_id,
                                      session_status |-> r.session.status,
                                      total_segments |-> r.session.segment_count])]

verify_hash_response(session_id, segment_id, hash, signature) ==
    IF ~known(session_id)
    THEN Response(404, "Session not found")
    ELSE verify_hash_result(session_id, segment_id, hash, signature).resp

\* SESSIONS as POST /api/verify-hash leaves it.
verify_hash_sessions(session_id, segment_id, hash, signature) ==
    IF ~known(session_id)
    THEN SESSIONS
    ELSE store(verify_hash_result(session_id, segment_id, hash, signature).session)

verify_hash(session_id, segment_id, hash, signature) ==
    IF ~known(session_id)
    THEN UNCHANGED vars
    ELSE LET out == verify_hash_result(session_id, segment_id, hash, signature)
         IN  /\ out.session.segment_count <= MaxSeg
             /\ \/ Len(SESSIONS[session_id].anomaly_log) < MaxAnomalies
                \/ out.session.anomaly_log = SESSIONS[session_id].anomaly_log
             /\ SESSIONS' = verify_hash_sessions(session_id, segment_id, hash, signature)
             /\ UNCHANGED <<WEBAUTHN_CREDENTIALS, now, room_vars, store_vars>>

\* POST /api/session/reauth
\* Mutant of reauthenticate_session_response: any credential passes once one
\* is registered, the presented id is not looked up.
reauthenticate_session_response_any_credential(session_id, webauthn_credential_id) ==
    IF ~known(session_id)
    THEN Response(404, "Session not found")
    ELSE IF WEBAUTHN_CREDENTIALS = {}
    THEN Response(401, "Invalid credential")
    ELSE Response(200, [success |-> TRUE, session_id |-> session_id, status |-> "active"])

reauthenticate_session_response(session_id, webauthn_credential_id) ==
    IF ~known(session_id)
    THEN Response(404, "Session not found")
    ELSE IF webauthn_credential_id \notin WEBAUTHN_CREDENTIALS
    THEN Response(401, "Invalid credential")
    ELSE Response(200, [success |-> TRUE, session_id |-> session_id, status |-> "active"])

\* SESSIONS as POST /api/session/reauth leaves it.
reauthenticate_session_sessions(session_id, webauthn_credential_id) ==
    IF reauthenticate_session_response(session_id, webauthn_credential_id).code # 200
    THEN SESSIONS
    ELSE store([SESSIONS[session_id] EXCEPT !.status = "active",
                                            !.freeze_reason = None,
                                            !.last_activity = now])

reauthenticate_session(session_id, webauthn_credential_id) ==
    /\ SESSIONS' = reauthenticate_session_sessions(session_id, webauthn_credential_id)
    /\ UNCHANGED <<WEBAUTHN_CREDENTIALS, now, room_vars, store_vars>>

\* GET /api/session/{session_id} and its security-report: reads only.
get_session(session_id) == UNCHANGED vars

\* GET /api/stats: is_active() is called on every session, and may terminate it.
get_stats ==
    /\ SESSIONS' = [x \in DOMAIN SESSIONS |-> is_active(SESSIONS[x], now).session]
    /\ UNCHANGED <<WEBAUTHN_CREDENTIALS, now, room_vars, store_vars>>

\* Time passes between two requests.
Tick ==
    /\ now + TickStep <= MaxTicks * TickStep
    /\ now' = now + TickStep
    /\ UNCHANGED <<SESSIONS, WEBAUTHN_CREDENTIALS, room_vars, store_vars>>

(***************************************************************************)
(* server/signaling.py: class ConnectionManager.                           *)
(*                                                                         *)
(* asyncio runs a coroutine without interruption from one await to the      *)
(* next; every await on the socket (accept, send_json, close) is a point   *)
(* where another connection's call may run.  A call is therefore a chain   *)
(* of steps, calls[w].pc saying where connection w's call is suspended.    *)
(* A connection makes one call at a time: connect once, then broadcasts,   *)
(* then disconnect once.                                                   *)
(***************************************************************************)
Sockets == {"w1", "w2", "w3"}
Rooms == {"R", "Q"}
Messages == {[type |-> "offer"]}
ROOM_FULL == [type |-> "error", message |-> "ROOM_FULL"]
PEER_LEFT == [type |-> "peer_left"]
POLICY_VIOLATION == 1008

NoMessage == [type |-> None]
NoCall == [op |-> "none", pc |-> "none", room |-> None, idx |-> 0,
           dead |-> FALSE, message |-> NoMessage]
NoResults == [connect |-> "not_called", disconnect |-> "not_called",
              broadcast |-> "not_called"]

\* What awaiting a send or a close on socket w can do: it goes through on an
\* open connection; on one whose peer is gone it raises, RuntimeError (which
\* broadcast catches) or an error of the transport (which it does not).
SendOutcomes(w) ==
    IF sockets[w].state = "open" THEN {"ok"} ELSE {"RuntimeError", "SendError"}

delivered(w, message) == [sockets EXCEPT ![w].inbox = Append(@, message)]

\* list.remove(x): the first occurrence goes.
IndexOf(list, x) == CHOOSE i \in 1 .. Len(list) : list[i] = x /\ \A j \in 1 .. (i - 1) : list[j] # x
remove(list, x) ==
    LET i == IndexOf(list, x)
    IN  SubSeq(list, 1, i - 1) \o SubSeq(list, i + 1, Len(list))

Members(list) == {list[i] : i \in 1 .. Len(list)}

\* del self.active_connections[room_id]
without(room_id) == [r \in DOMAIN active_connections \ {room_id} |-> active_connections[r]]

with(room_id, list) == [r \in DOMAIN active_connections \cup {room_id} |->
                            IF r = room_id THEN list ELSE active_connections[r]]

\* The list object a suspended `for connection in self.active_connections[room_id]`
\* walks: the room's list, unless the room was deleted since the loop began (the
\* old list object is then empty for good, whatever list the room has now).
walked(c) == IF c.dead \/ c.room \notin DOMAIN active_connections
             THEN << >>
             ELSE active_connections[c.room]

\* A room's deletion leaves the loops suspended over its list with the dead list.
orphaned(room_id, cs) ==
    [w \in Sockets |-> IF cs[w].pc = "send" /\ cs[w].room = room_id
                       THEN [cs[w] EXCEPT !.dead = TRUE]
                       ELSE cs[w]]

\* Mutant of next_target: the sender is not skipped.
next_target_includes_sender(list, from, sender) ==
    IF from <= Len(list) THEN from ELSE 0

\* The position from `from` on of the next connection of the list that is not
\* the sender, 0 when there is none.
next_target(list, from, sender) ==
    IF \E j \in from .. Len(list) : list[j] # sender
    THEN CHOOSE j \in from .. Len(list) :
             list[j] # sender /\ \A k \in from .. (j - 1) : list[k] = sender
    ELSE 0

returns(w, c, value) ==
    /\ calls' = [calls EXCEPT ![w] = NoCall]
    /\ results' = [results EXCEPT ![w][c.op] = value]

\* Mutant of room_is_full: the capacity test off by one.
room_is_full_off_by_one(list) == Len(list) > 2

\* connect: if len(self.active_connections[room_id]) >= 2
room_is_full(list) == Len(list) >= 2

\* connect(websocket, room_id) up to its first await: websocket.accept().
connect_call(w, room_id) ==
    /\ results[w].connect = "not_called"
    /\ sockets' = [sockets EXCEPT ![w].state = "open", ![w].room = room_id]
    /\ calls' = [calls EXCEPT ![w] = [NoCall EXCEPT !.op = "connect", !.pc = "accept",
                                                    !.room = room_id]]
    /\ results' = [results EXCEPT ![w].connect = "running"]
    /\ UNCHANGED <<active_connections, relays, engine_vars, store_vars>>

\* Mutant of connect_after_accept: the refusal closes the connection without
\* sending it the ROOM_FULL message first.
connect_after_accept_no_message(w) ==
    LET c == calls[w]
        list == IF c.room \in DOMAIN active_connections
                THEN active_connections[c.room] ELSE << >>
    IN  /\ c.op = "connect" /\ c.pc = "accept"
        /\ UNCHANGED <<relays, engine_vars, store_vars>>
        /\ IF room_is_full(list)
           THEN /\ active_connections' = with(c.room, list)
                /\ \E o \in SendOutcomes(w) :
                       IF o = "ok"
                       THEN /\ sockets' = [sockets EXCEPT ![w].state = "closed",
                                              ![w].close_codes = Append(@, POLICY_VIOLATION)]
                            /\ calls' = [calls EXCEPT ![w].pc = "closing"]
                            /\ UNCHANGED results
                       ELSE /\ returns(w, c, o)
                            /\ UNCHANGED sockets
           ELSE /\ active_connections' = with(c.room, Append(list, w))
                /\ returns(w, c, "True")
                /\ UNCHANGED sockets

\* After accept: the room entry is made if absent, then the capacity test and
\* either the refusal's send_json or the append and `return True`, in one run.
connect_after_accept(w) ==
    LET c == calls[w]
        list == IF c.room \in DOMAIN active_connections
                THEN active_connections[c.room] ELSE << >>
    IN  /\ c.op = "connect" /\ c.pc = "accept"
        /\ UNCHANGED <<relays, engine_vars, store_vars>>
        /\ IF room_is_full(list)
           THEN /\ active_connections' = with(c.room, list)
                /\ \E o \in SendOutcomes(w) :
                       IF o = "ok"
                       THEN /\ sockets' = delivered(w, ROOM_FULL)
                            /\ calls' = [calls EXCEPT ![w].pc = "sent_full"]
                            /\ UNCHANGED results
                       ELSE /\ returns(w, c, o)
                            /\ UNCHANGED sockets
           ELSE /\ active_connections' = with(c.room, Append(list, w))
                /\ returns(w, c, "True")
                /\ UNCHANGED sockets

\* After the ROOM_FULL message went out: websocket.close(code=1008).
connect_after_send(w) ==
    LET c == calls[w]
    IN  /\ c.op = "connect" /\ c.pc = "sent_full"
        /\ UNCHANGED <<active_connections, relays, engine_vars, store_vars>>
        /\ \E o \in SendOutcomes(w) :
               IF o = "ok"
               THEN /\ sockets' = [sockets EXCEPT ![w].state = "closed",
                                                  ![w].close_codes = Append(@, POLICY_VIOLATION)]
                    /\ calls' = [calls EXCEPT ![w].pc = "closing"]
                    /\ UNCHANGED results
               ELSE /\ returns(w, c, o)
                    /\ UNCHANGED sockets

\* After close: return False.
connect_after_close(w) ==
    /\ calls[w].op = "connect" /\ calls[w].pc = "closing"
    /\ returns(w, calls[w], "False")
    /\ UNCHANGED <<active_connections, sockets, relays, engine_vars, store_vars>>

connect(w, room_id) ==
    \/ connect_call(w, room_id)
    \/ connect_after_accept(w)
    \/ connect_after_send(w)
    \/ connect_after_close(w)

\* Mutant of disconnect_tail: the entry of an emptied room is kept.
disconnect_tail_keeps_room(w, c, ac) ==
    /\ UNCHANGED sockets
    /\ active_connections' = ac
    /\ returns(w, c, IF c.room \notin DOMAIN ac THEN "KeyError" ELSE "None")

\* disconnect, from `if not self.active_connections[room_id]` on; ac is the
\* dictionary as this run of the coroutine has left it so far.
disconnect_tail(w, c, ac) ==
    /\ UNCHANGED sockets
    /\ IF c.room \notin DOMAIN ac
       THEN /\ active_connections' = ac
            /\ returns(w, c, "KeyError")
       ELSE IF ac[c.room] = << >>
       THEN /\ active_connections' = [r \in DOMAIN ac \ {c.room} |-> ac[r]]
            /\ calls' = orphaned(c.room, [calls EXCEPT ![w] = NoCall])
            /\ results' = [results EXCEPT ![w][c.op] = "None"]
       ELSE /\ active_connections' = ac
            /\ returns(w, c, "None")

\* broadcast's loop from position `from` of the walked list to its next await
\* (a send_json to a connection that is not the sender) or to its end.  A
\* RuntimeError of the send is caught and the loop goes on; any other error
\* leaves broadcast, and disconnect if it was the caller.
broadcast_loop(w, c, ac, from) ==
    LET list == IF c.dead \/ c.room \notin DOMAIN ac THEN << >> ELSE ac[c.room]
        j == next_target(list, from, w)
    IN  IF j # 0
        THEN /\ active_connections' = ac
             /\ \E o \in SendOutcomes(list[j]) :
                    /\ sockets' = IF o = "ok" THEN delivered(list[j], c.message)
                                              ELSE sockets
                    /\ IF o = "SendError"
                       THEN returns(w, c, o)
                       ELSE /\ calls' = [calls EXCEPT ![w] = [c EXCEPT !.pc = "send",
                                                                      !.idx = j + 1]]
                            /\ UNCHANGED results
        ELSE IF c.op = "disconnect"
        THEN disconnect_tail(w, c, ac)
        ELSE /\ active_connections' = ac
             /\ returns(w, c, "None")
             /\ UNCHANGED sockets

\* disconnect(websocket, room_id) up to its first await.
disconnect_call(w) ==
    LET c == [NoCall EXCEPT !.op = "disconnect", !.room = sockets[w].room,
                            !.message = PEER_LEFT]
        r == c.room
    IN  /\ calls[w].op = "none"
        /\ results[w].connect \notin {"not_called", "running"}
        /\ results[w].disconnect = "not_called"
        /\ UNCHANGED <<relays, engine_vars, store_vars>>
        /\ IF r \notin DOMAIN active_connections
           THEN /\ returns(w, c, "None")
                /\ UNCHANGED <<active_connections, sockets>>
           ELSE IF w \in Members(active_connections[r])
           THEN broadcast_loop(w, c, with(r, remove(active_connections[r], w)), 1)
           ELSE disconnect_tail(w, c, active_connections)

\* disconnect resumed after a send_json of its peer_left broadcast.
disconnect_resume(w) ==
    /\ calls[w].op = "disconnect" /\ calls[w].pc = "send"
    /\ broadcast_loop(w, calls[w], active_connections, calls[w].idx)
    /\ UNCHANGED <<relays, engine_vars, store_vars>>

disconnect(w) == disconnect_call(w) \/ disconnect_resume(w)

\* broadcast(message, room_id, sender) called for a message received from a
\* member, up to its first await.
broadcast_call(w, message) ==
    LET c == [NoCall EXCEPT !.op = "broadcast", !.room = sockets[w].room,
                            !.message = message]
    IN  /\ calls[w].op = "none"
        /\ results[w].connect = "True"
        /\ results[w].disconnect = "not_called"
        /\ relays < MaxRelays
        /\ relays' = relays + 1
        /\ broadcast_loop(w, c, active_connections, 1)
        /\ UNCHANGED <<engine_vars, store_vars>>

broadcast_resume(w) ==
    /\ calls[w].op = "broadcast" /\ calls[w].pc = "send"
    /\ broadcast_loop(w, calls[w], active_connections, calls[w].idx)
    /\ UNCHANGED <<relays, engine_vars, store_vars>>

broadcast(w, message) == broadcast_call(w, message) \/ broadcast_resume(w)

\* The peer of an open connection goes away; the server has not noticed yet.
peer_gone(w) ==
    /\ sockets[w].state = "open"
    /\ sockets' = [sockets EXCEPT ![w].state = "dropped"]
    /\ UNCHANGED <<active_connections, calls, results, relays, engine_vars, store_vars>>

NextRoom ==
    \/ \E w \in Sockets, r \in Rooms : connect_call(w, r)
    \/ \E w \in Sockets : connect_after_accept(w)
    \/ \E w \in Sockets : connect_after_send(w)
    \/ \E w \in Sockets : connect_after_close(w)
    \/ \E w \in Sockets : disconnect_call(w)
    \/ \E w \in Sockets : disconnect_resume(w)
    \/ \E w \in Sockets, m \in Messages : broadcast_call(w, m)
    \/ \E w \in Sockets : broadcast_resume(w)
    \/ \E w \in Sockets : peer_gone(w)

Init ==
    /\ SESSIONS = << >>
    /\ WEBAUTHN_CREDENTIALS = {}
    /\ now = 0
    /\ active_connections = << >>
    /\ sockets = [w \in Sockets |-> [state |-> "new", room |-> None, inbox |-> << >>,
                                     close_codes |-> << >>]]
    /\ calls = [w \in Sockets |-> NoCall]
    /\ results = [w \in Sockets |-> NoResults]
    /\ relays = 0
    /\ sessions_table = << >>

\* The session engine.  One session per run: every handler reads and writes
\* SESSIONS[session_id] alone.
Next ==
    \/ \E s \in SessionIds, k \in Keys : DOMAIN SESSIONS = {} /\ initialize_session(s, k)
    \/ \E c \in CredIds : register_webauthn(c)
    \/ \E s \in SessionIds, g \in SegIds, h \in ReportHashes :
           \E sig \in Signatures(s, g, h) : verify_hash(s, g, h, sig)
    \/ \E s \in SessionIds, c \in CredIds : reauthenticate_session(s, c)
    \/ \E s \in SessionIds : get_session(s)
    \/ get_stats
    \/ Tick

Spec == Init /\ [][Next]_vars

SpecRoom == Init /\ [][NextRoom]_vars

\* PPAHSession(session_id) built with the constructor's default session_key=None:
\* no endpoint does so, the class allows it.
keyless_session(session_id) ==
    /\ ~known(session_id)
    /\ SESSIONS' = store(PPAHSession(session_id, None, now))
    /\ UNCHANGED <<WEBAUTHN_CREDENTIALS, now, room_vars, store_vars>>

NextNoKey ==
    \/ Next
    \/ \E s \in SessionIds : DOMAIN SESSIONS = {} /\ keyless_session(s)

SpecNoKey == Init /\ [][NextNoKey]_vars

(***************************************************************************)
(* The engine behind the verify endpoint that takes a trust score           *)
(* (models.VerifyHashRequest.trust_score, models.PPAHSession.last_trust_score):*)
(* the Session Record, verify_and_record and the trust-score policy.  The   *)
(* signature check and the sequencing are those of add_hash above.          *)
(***************************************************************************)
TRUST_THRESHOLD == 40
INITIAL_TRUST_SCORE == 100

Emails == {"e1"}
Scores == {20, 39, 40, 85, 90}

LowScoreReason(score) == "Low trust score: " \o ToString(score)

\* The Session Record as created at session initialization.
SessionRecord(session_id, email, webauthn_id, session_key, t) ==
    [ session_id       |-> session_id,
      email            |-> email,
      webauthn_id      |-> webauthn_id,
      session_key      |-> session_key,
      created_at       |-> t,
      last_activity    |-> t,
      status           |-> "active",
      freeze_reason    |-> None,
      last_trust_score |-> INITIAL_TRUST_SCORE,
      segment_count    |-> 0,
      hash_chain       |-> << >>,
      anomaly_log      |-> << >> ]

\* Mutant of trust_score_policy: the threshold itself counted as low.
trust_score_policy_threshold_low(current_status, reported_score) ==
    IF reported_score <= TRUST_THRESHOLD
    THEN [status |-> "frozen", freeze_reason |-> LowScoreReason(reported_score)]
    ELSE [status |-> "active", freeze_reason |-> None]

\* (current_status, reported_score) -> (new_status, new_freeze_reason)
trust_score_policy(current_status, reported_score) ==
    IF reported_score < TRUST_THRESHOLD
    THEN [status |-> "frozen", freeze_reason |-> LowScoreReason(reported_score)]
    ELSE IF current_status = "frozen"
    THEN [status |-> "active", freeze_reason |-> None]
    ELSE [status |-> current_status, freeze_reason |-> None]

\* A freeze by the verifier, which no score lifts.
hard_frozen(s) ==
    s.status = "frozen" /\ s.freeze_reason \in {SIGNATURE_FREEZE, SEQUENCE_FREEZE}

Decision(valid, session_status, reason) ==
    [valid |-> valid, session_status |-> session_status, reason |-> reason]

\* verify_and_record on the record s0 loaded for the report, at time t: the
\* record it persists and the decision it returns.
verify_and_record(s0, segment_id, reported_hash, reported_signature, trust_score, t) ==
    LET r == add_hash(s0, segment_id, reported_hash, reported_signature, t)
        window == sliding_window(s0.segment_count, segment_id)
        p == trust_score_policy(s0.status, trust_score)
    IN  IF s0.status = "terminated"
        THEN [session |-> s0, decision |-> Decision(FALSE, "terminated", "Terminated")]
        ELSE IF t - s0.last_activity > SESSION_TIMEOUT
        THEN [session |-> terminate(s0),
              decision |-> Decision(FALSE, "terminated", "Terminated")]
        ELSE IF hard_frozen(s0)
        THEN [session |-> [s0 EXCEPT !.last_activity = t],
              decision |-> Decision(FALSE, "frozen", s0.freeze_reason)]
        ELSE IF ~r.ret
        THEN [session |-> r.session,
              decision |-> Decision(FALSE, "frozen", r.session.freeze_reason)]
        ELSE IF window = "stale"
        THEN [session |-> r.session,
              decision |-> Decision(TRUE, r.session.status, r.session.freeze_reason)]
        ELSE [session |-> [r.session EXCEPT !.status = p.status,
                                            !.freeze_reason = p.freeze_reason,
                                            !.last_trust_score = trust_score],
              decision |-> Decision(TRUE, p.status, p.freeze_reason)]

\* init_session(email, webauthn_credential_id): a fresh id and key.
init_session(session_id, email, webauthn_id, session_key) ==
    /\ ~known(session_id)
    /\ SESSIONS' = store(SessionRecord(session_id, email, webauthn_id, session_key, now))
    /\ UNCHANGED <<WEBAUTHN_CREDENTIALS, now, room_vars, store_vars>>

\* verify_segment(session_id, segment_id, hash, signature, trust_score)
verify_segment(session_id, segment_id, hash, signature, trust_score) ==
    IF ~known(session_id)
    THEN UNCHANGED vars
    ELSE LET out == verify_and_record(SESSIONS[session_id], segment_id, hash,
                                      signature, trust_score, now)
         IN  /\ out.session.segment_count <= MaxSeg
             /\ \/ Len(SESSIONS[session_id].anomaly_log) < MaxAnomalies
                \/ out.session.anomaly_log = SESSIONS[session_id].anomaly_log
             /\ SESSIONS' = store(out.session)
             /\ UNCHANGED <<WEBAUTHN_CREDENTIALS, now, room_vars, store_vars>>

NextTrust ==
    \/ \E s \in SessionIds, e \in Emails, c \in CredIds, k \in Keys :
           DOMAIN SESSIONS = {} /\ init_session(s, e, c, k)
    \/ \E s \in SessionIds, g \in SegIds, h \in ReportHashes, v \in Scores :
           \E sig \in Signatures(s, g, h) : verify_segment(s, g, h, sig, v)
    \/ Tick

SpecTrust == Init /\ [][NextTrust]_vars

(***************************************************************************)
(* server/models.py: class PPAHSession, the record kept in the 'sessions'   *)
(* table of server/database.py as JSON.                                     *)
(***************************************************************************)
Statuses == {"active", "frozen", "terminated"}
FreezeReasons == {None, "Low trust score"}

\* str(datetime) of to_dict, and json.dumps(default=str): the time as text.
str(t) == ToString(t)

\* models.PPAHSession(session_id, email, webauthn_id, session_key) built at time t.
StoredSession(session_id, email, webauthn_id, session_key, t) ==
    [ session_id       |-> session_id,
      email            |-> email,
      webauthn_id      |-> webauthn_id,
      session_key      |-> session_key,
      created_at       |-> t,
      status           |-> "active",
      freeze_reason    |-> None,
      last_trust_score |-> INITIAL_TRUST_SCORE ]

to_dict(s) == [s EXCEPT !.created_at = str(s.created_at)]

\* The table after s.save(): INSERT OR REPLACE of the row of s.session_id.
saved(s) ==
    [x \in DOMAIN sessions_table \cup {s.session_id} |->
        IF x = s.session_id THEN to_dict(s) ELSE sessions_table[x]]

\* PPAHSession.load(session_id) at time t: the object is built anew from the
\* row's session_id, email, webauthn_id and session_key, then given the row's
\* status, freeze_reason and last_trust_score.
load(session_id, t) ==
    IF session_id \in DOMAIN sessions_table
    THEN LET d == sessions_table[session_id]
         IN  [StoredSession(d.session_id, d.email, d.webauthn_id, d.session_key, t)
                 EXCEPT !.status = d.status,
                        !.freeze_reason = d.freeze_reason,
                        !.last_trust_score = d.last_trust_score]
    ELSE None

save(s) ==
    /\ sessions_table' = saved(s)
    /\ UNCHANGED <<engine_vars, room_vars>>

\* A session is created and saved.
create_and_save(session_id, email, webauthn_id, session_key) ==
    /\ session_id \notin DOMAIN sessions_table
    /\ save(StoredSession(session_id, email, webauthn_id, session_key, now))

\* A request on a stored session: load, set status, freeze_reason and
\* last_trust_score, save.
load_and_save(session_id, status, freeze_reason, last_trust_score) ==
    /\ session_id \in DOMAIN sessions_table
    /\ save([load(session_id, now) EXCEPT !.status = status,
                                          !.freeze_reason = freeze_reason,
                                          !.last_trust_score = last_trust_score])

\* A save/load cycle that changes nothing: load, save.
load_cycle(session_id) ==
    /\ session_id \in DOMAIN sessions_table
    /\ save(load(session_id, now))

NextStore ==
    \/ \E s \in SessionIds, e \in Emails, c \in CredIds, k \in Keys :
           DOMAIN sessions_table = {} /\ create_and_save(s, e, c, k)
    \/ \E s \in SessionIds, st \in Statuses, fr \in FreezeReasons, v \in Scores :
           load_and_save(s, st, fr, v)
    \/ \E s \in SessionIds : load_cycle(s)
    \/ Tick

SpecStore == Init /\ [][NextStore]_vars

(***************************************************************************)
(* Vocabulary of the properties.                                           *)
(***************************************************************************)
\* The reports a property ranges over.
Reports(session_id) ==
    UNION {{[segment_id |-> g, hash |-> h, signature |-> sig] :
                sig \in Signatures(session_id, g, h)} : g \in SegIds, h \in Hashes}

\* What verify_hash does with report r in the current state.
Outcome(session_id, r) ==
    verify_hash_result(session_id, r.segment_id, r.hash, r.signature)

\* The report carries the MAC of its own message under the session's key.
SignatureValid(s, r) ==
    /\ s.session_key # None
    /\ r.signature = HMAC(s.session_key, Message(s.session_id, r.segment_id, r.hash))

\* The session is active and has not timed out: a report reaches add_hash.
Live(s) == s.status = "active" /\ now - s.last_activity <= SESSION_TIMEOUT

TimedOut(s) == now - s.last_activity > SESSION_TIMEOUT

HardFrozen(s) ==
    s.status = "frozen" /\ s.freeze_reason \in {SIGNATURE_FREEZE, SEQUENCE_FREEZE}

ChainIds(s) == {s.hash_chain[i].segment_id : i \in 1 .. Len(s.hash_chain)}

Descriptions(s) == {s.anomaly_log[i].description : i \in 1 .. Len(s.anomaly_log)}

\* C1: in every step, whatever the call (reports with valid or invalid
\* signatures and any segment id, reauth, stats), every session is still there
\* and its segment_count has not decreased.
C1_SegmentCountNeverDecreases ==
    [][\A x \in DOMAIN SESSIONS :
           /\ x \in DOMAIN SESSIONS'
           /\ SESSIONS'[x].segment_count >= SESSIONS[x].segment_count]_vars

\* A session that advanced, was frozen by a bad report and was reactivated.
C1_Witness ==
    \E x \in DOMAIN SESSIONS :
        /\ SESSIONS[x].segment_count >= 2
        /\ SESSIONS[x].status = "active"
        /\ "Invalid HMAC signature" \in Descriptions(SESSIONS[x])

\* A connect of connection w that found its room full: it is on the refusal's
\* path (the ROOM_FULL message, the close) or has left it, by `return False`
\* or by the error of a send to a peer that is gone.
Refused(w) ==
    \/ calls[w].op = "connect" /\ calls[w].pc \in {"sent_full", "closing"}
    \/ results[w].connect \in {"False", "RuntimeError", "SendError"}

\* C2: whatever the interleaving of connect, disconnect and broadcast calls at
\* their awaits, no room's list holds more than 2 connections; a connection is
\* in a list only through a connect that returned True, at most once and only
\* in the room it asked for; a connect that found 2 members never adds the
\* connection to any list and, once its message and close went through, has
\* returned False.
C2_RoomNeverExceedsTwo ==
    /\ \A r \in DOMAIN active_connections :
           LET list == active_connections[r]
           IN  /\ Len(list) <= 2
               /\ \A i \in 1 .. Len(list) :
                      /\ results[list[i]].connect = "True"
                      /\ sockets[list[i]].room = r
                      /\ \A j \in 1 .. Len(list) : list[i] = list[j] => i = j
    /\ \A w \in Sockets :
           Refused(w) =>
               /\ \A r \in DOMAIN active_connections : w \notin Members(active_connections[r])
               /\ results[w].connect # "True"
               /\ (calls[w].op # "connect" /\ sockets[w].close_codes = <<POLICY_VIOLATION>>)
                      => results[w].connect = "False"

\* Two late joiners of a room were both accepted while it had one member; one
\* was admitted, the other was sent ROOM_FULL, closed with 1008 and got False.
C2_Witness ==
    \E r \in DOMAIN active_connections : \E w \in Sockets :
        /\ Len(active_connections[r]) = 2
        /\ sockets[w].room = r
        /\ results[w].connect = "False"
        /\ sockets[w].inbox = <<ROOM_FULL>>
        /\ sockets[w].close_codes = <<POLICY_VIOLATION>>
        /\ w \notin Members(active_connections[r])

\* C3: a session frozen by a signature failure or a sequence break is still
\* frozen after any segment report, whatever its signature, segment id or hash.
C3_HardFreezeNotAutoRecoverable ==
    \A x \in DOMAIN SESSIONS :
        HardFrozen(SESSIONS[x]) =>
            \A r \in Reports(x) : Outcome(x, r).session.status = "frozen"

\* A session frozen by a sequence break, long enough ago to have timed out.
C3_Witness ==
    \E x \in DOMAIN SESSIONS :
        /\ HardFrozen(SESSIONS[x])
        /\ SESSIONS[x].freeze_reason = SEQUENCE_FREEZE
        /\ TimedOut(SESSIONS[x])

\* C4: once a session is terminated, no step changes its status, its
\* hash_chain or its segment_count.
C4_TerminatedIsAbsorbing ==
    [][\A x \in DOMAIN SESSIONS :
           SESSIONS[x].status = "terminated" =>
               /\ SESSIONS'[x].status = "terminated"
               /\ SESSIONS'[x].hash_chain = SESSIONS[x].hash_chain
               /\ SESSIONS'[x].segment_count = SESSIONS[x].segment_count]_vars

\* C5: a report whose signature does not match, or sent to a session without a
\* key, makes add_hash return False with the session frozen for the signature,
\* an anomaly logged and segment_count and hash_chain as they were; verify_hash
\* then answers valid=false, action=reauth_required.
C5_SignatureFailureFreezes ==
    \A x \in DOMAIN SESSIONS : \A r \in Reports(x) :
        ~SignatureValid(SESSIONS[x], r) =>
            LET s == SESSIONS[x]
                a == add_hash(s, r.segment_id, r.hash, r.signature, now)
            IN  /\ ~a.ret
                /\ a.session.status = "frozen"
                /\ a.session.freeze_reason = SIGNATURE_FREEZE
                /\ Len(a.session.anomaly_log) > Len(s.anomaly_log)
                /\ SubSeq(a.session.anomaly_log, 1, Len(s.anomaly_log)) = s.anomaly_log
                /\ a.session.segment_count = s.segment_count
                /\ a.session.hash_chain = s.hash_chain
                /\ Live(s) =>
                       /\ Outcome(x, r).session = a.session
                       /\ Outcome(x, r).resp.code = 200
                       /\ Outcome(x, r).resp.body.valid = FALSE
                       /\ Outcome(x, r).resp.body.action = "reauth_required"

\* A session that had accepted a segment, frozen by a signature failure.
C5_Witness ==
    \E x \in DOMAIN SESSIONS :
        /\ SESSIONS[x].status = "frozen"
        /\ SESSIONS[x].freeze_reason = SIGNATURE_FREEZE
        /\ SESSIONS[x].segment_count = 1
        /\ SESSIONS[x].anomaly_log[Len(SESSIONS[x].anomaly_log)].description
               = "Invalid HMAC signature"

\* C6: on a live session, a signature-valid report with segment_id >
\* segment_count + 2 is answered valid=false and leaves the session frozen for
\* the sequence break, one anomaly more, segment_count and hash_chain unchanged.
C6_LargeGapFreezes ==
    \A x \in DOMAIN SESSIONS : \A r \in Reports(x) :
        LET s == SESSIONS[x]
            o == Outcome(x, r)
        IN  (Live(s) /\ SignatureValid(s, r) /\ r.segment_id > s.segment_count + 2) =>
                /\ o.resp.code = 200
                /\ o.resp.body.valid = FALSE
                /\ o.session.status = "frozen"
                /\ o.session.freeze_reason = SEQUENCE_FREEZE
                /\ o.session.anomaly_log =
                       Append(s.anomaly_log, [description |-> "Non-sequential segment",
                                              segment_count |-> s.segment_count])
                /\ o.session.segment_count = s.segment_count
                /\ o.session.hash_chain = s.hash_chain

\* A sequence break reported when segment_count was 1, the count still 1.
C6_Witness ==
    \E x \in DOMAIN SESSIONS :
        /\ SESSIONS[x].status = "frozen"
        /\ SESSIONS[x].freeze_reason = SEQUENCE_FREEZE
        /\ SESSIONS[x].segment_count = 1
        /\ SESSIONS[x].anomaly_log[Len(SESSIONS[x].anomaly_log)] =
               [description |-> "Non-sequential segment", segment_count |-> 1]

\* C7: on a live session a signature-valid report with segment_id =
\* segment_count + 2 is answered valid=true, is appended to hash_chain, sets
\* segment_count to its id, logs a packet-loss anomaly and leaves the session
\* active; and an id at or below segment_count that is not in the chain (the
\* skipped one) is in no later chain.
C7_Accepted ==
    \A x \in DOMAIN SESSIONS : \A r \in Reports(x) :
        LET s == SESSIONS[x]
            o == Outcome(x, r)
        IN  (Live(s) /\ SignatureValid(s, r) /\ r.segment_id = s.segment_count + 2) =>
                /\ o.resp.code = 200
                /\ o.resp.body.valid = TRUE
                /\ o.session.hash_chain =
                       Append(s.hash_chain, [segment_id |-> r.segment_id, hash |-> r.hash])
                /\ o.session.segment_count = r.segment_id
                /\ o.session.anomaly_log =
                       Append(s.anomaly_log, [description |-> "Packet loss detected",
                                              segment_count |-> s.segment_count])
                /\ o.session.status = "active"
                /\ s.segment_count + 1 \notin ChainIds(o.session)

C7_SkippedStaysOut ==
    \A x \in DOMAIN SESSIONS : \A g \in 1 .. SESSIONS[x].segment_count :
        g \notin ChainIds(SESSIONS[x]) => g \notin ChainIds(SESSIONS'[x])

C7_GapOfOneTolerated == [](C7_Accepted) /\ [][C7_SkippedStaysOut]_vars

\* Segment 1 was skipped (2 accepted on an empty chain), then 3 was accepted.
C7_Witness ==
    \E x \in DOMAIN SESSIONS :
        /\ SESSIONS[x].segment_count = 3
        /\ ChainIds(SESSIONS[x]) = {2, 3}
        /\ SESSIONS[x].anomaly_log[1] =
               [description |-> "Packet loss detected", segment_count |-> 0]

\* C8 as stated: on every session that is not terminated, a signature-valid
\* report with segment_id <= segment_count is answered valid=true and leaves
\* hash_chain, segment_count, status and freeze_reason as they were.
C8_StaleIsNoOpUnlessTerminated ==
    \A x \in DOMAIN SESSIONS : \A r \in Reports(x) :
        LET s == SESSIONS[x]
            o == Outcome(x, r)
        IN  (s.status # "terminated" /\ SignatureValid(s, r)
                 /\ r.segment_id <= s.segment_count) =>
                /\ o.resp.code = 200
                /\ o.resp.body.valid = TRUE
                /\ o.session.hash_chain = s.hash_chain
                /\ o.session.segment_count = s.segment_count
                /\ o.session.status = s.status
                /\ o.session.freeze_reason = s.freeze_reason

\* C8 amended: the same on a session that is active and has not timed out; only
\* last_activity changes.  On any other session the report is refused with 403
\* and hash_chain, segment_count and freeze_reason are as they were.
C8_StaleIsNoOpWhenLive ==
    \A x \in DOMAIN SESSIONS : \A r \in Reports(x) :
        LET s == SESSIONS[x]
            o == Outcome(x, r)
        IN  (SignatureValid(s, r) /\ r.segment_id <= s.segment_count) =>
                /\ o.session.hash_chain = s.hash_chain
                /\ o.session.segment_count = s.segment_count
                /\ o.session.freeze_reason = s.freeze_reason
                /\ IF Live(s)
                   THEN /\ o.resp.code = 200
                        /\ o.resp.body.valid = TRUE
                        /\ o.session = [s EXCEPT !.last_activity = now]
                   ELSE o.resp.code = 403

\* A live session with accepted segments whose last activity is in the past.
C8_Witness ==
    \E x \in DOMAIN SESSIONS :
        /\ Live(SESSIONS[x])
        /\ SESSIONS[x].segment_count = 3
        /\ Len(SESSIONS[x].hash_chain) = 3
        /\ SESSIONS[x].last_activity < now

\* C9: a report to an active or frozen session whose last activity is more
\* than SESSION_TIMEOUT ago terminates the session and is refused.
C9_TimeoutTerminatesActiveAndFrozen ==
    \A x \in DOMAIN SESSIONS : \A r \in Reports(x) :
        (SESSIONS[x].status \in {"active", "frozen"} /\ TimedOut(SESSIONS[x])) =>
            /\ Outcome(x, r).session.status = "terminated"
            /\ Outcome(x, r).resp.code = 403

\* What verify_and_record does with scored report q in the current state.
ScoredOutcome(session_id, q) ==
    verify_and_record(SESSIONS[session_id], q.report.segment_id, q.report.hash,
                      q.report.signature, q.trust_score, now)

\* Frozen by a low score and by nothing else.
SoftFrozen(s) ==
    s.status = "frozen" /\ s.freeze_reason \in {LowScoreReason(v) : v \in 0 .. 100}

\* The report with the session's own MAC for segment g, hash h and score v.
SignedReport(s, g, h, v) ==
    [report |-> [segment_id |-> g, hash |-> h,
                 signature |-> HMAC(s.session_key, Message(s.session_id, g, h))],
     trust_score |-> v]

\* C10, the policy: on a session that is active or frozen by a low score only,
\* and has not timed out, a signature-valid report for segment_count + 1 or
\* segment_count + 2 is accepted (valid, the segment appended to the chain, the
\* count advanced to it, the score kept as last_trust_score); the session is
\* then frozen with the low-score reason when the score is below 40, and
\* active with no freeze_reason when it is 40 or more.
C10_PolicyOnAcceptedReport ==
    \A x \in DOMAIN SESSIONS : \A g \in SegIds, h \in Hashes, v \in Scores :
        LET s == SESSIONS[x]
            q == SignedReport(s, g, h, v)
            r == q.report
            o == ScoredOutcome(x, q)
        IN  (/\ s.status = "active" \/ SoftFrozen(s)
             /\ ~TimedOut(s)
             /\ SignatureValid(s, r)
             /\ r.segment_id \in {s.segment_count + 1, s.segment_count + 2}) =>
                /\ o.decision.valid = TRUE
                /\ o.session.segment_count = r.segment_id
                /\ o.session.hash_chain =
                       Append(s.hash_chain, [segment_id |-> r.segment_id, hash |-> r.hash])
                /\ o.session.last_trust_score = q.trust_score
                /\ o.decision.session_status = o.session.status
                /\ IF q.trust_score < 40
                   THEN /\ o.session.status = "frozen"
                        /\ o.session.freeze_reason = LowScoreReason(q.trust_score)
                   ELSE /\ o.session.status = "active"
                        /\ o.session.freeze_reason = None

\* C10, the scenario: on a fresh session, segment 1 with score 90, segment 2
\* with score 20 and segment 3 with score 85, each validly signed, are all
\* accepted and leave the session active, frozen, active with segment_count
\* 1, 2, 3.
C10_Scenario ==
    \A x \in DOMAIN SESSIONS : \A h \in Hashes :
        LET s0 == SESSIONS[x]
            step(s, g, v) ==
                LET q == SignedReport(s, g, h, v)
                IN  verify_and_record(s, g, h, q.report.signature, v, now)
            o1 == step(s0, 1, 90)
            o2 == step(o1.session, 2, 20)
            o3 == step(o2.session, 3, 85)
        IN  (s0.segment_count = 0 /\ s0.status = "active" /\ ~TimedOut(s0)) =>
                /\ o1.decision.valid /\ o2.decision.valid /\ o3.decision.valid
                /\ <<o1.decision.session_status, o2.decision.session_status,
                      o3.decision.session_status>> = <<"active", "frozen", "active">>
                /\ <<o1.session.status, o2.session.status, o3.session.status>>
                       = <<"active", "frozen", "active">>
                /\ <<o1.session.segment_count, o2.session.segment_count,
                      o3.session.segment_count>> = <<1, 2, 3>>
                /\ o3.session.freeze_reason = None

SingleChanges(session_id, r) ==
    {[r EXCEPT !.signature = sig] :
         sig \in Signatures(session_id, r.segment_id, r.hash) \ {r.signature}}
        \cup {[r EXCEPT !.hash = h] : h \in Hashes \ {r.hash}}
        \cup {[r EXCEPT !.segment_id = g] : g \in SegIds \ {r.segment_id}}

\* C11: verify_signature accepts a report exactly when its signature is the MAC,
\* under the session's own key, of session id, segment id and hash; and on a
\* live session every report obtained from one that verifies by changing only
\* its signature, only its hash or only its segment_id is answered valid=false
\* and freezes the session for the signature.
C11_SignatureIffMAC ==
    \A x \in DOMAIN SESSIONS : \A r \in Reports(x) :
        LET s == SESSIONS[x]
        IN  /\ verify_signature(s, r.segment_id, r.hash, r.signature).ret
                   <=> SignatureValid(s, r)
            /\ (Live(s) /\ SignatureValid(s, r)) =>
                   \A r2 \in SingleChanges(x, r) :
                       /\ Outcome(x, r2).resp.body.valid = FALSE
                       /\ Outcome(x, r2).session.status = "frozen"
                       /\ Outcome(x, r2).session.freeze_reason = SIGNATURE_FREEZE
                       /\ Outcome(x, r2).session.hash_chain = s.hash_chain

\* A session whose reports for segments 1 and 2 verified, frozen by a report
\* whose signature did not.
C11_Witness ==
    \E x \in DOMAIN SESSIONS :
        /\ SESSIONS[x].status = "frozen"
        /\ SESSIONS[x].freeze_reason = SIGNATURE_FREEZE
        /\ ChainIds(SESSIONS[x]) = {1, 2}
        /\ "Invalid HMAC signature" \in Descriptions(SESSIONS[x])

\* This step is connection w calling disconnect.
DisconnectCalled(w) ==
    /\ calls[w].op = "none"
    /\ \/ calls'[w].op = "disconnect"
       \/ results'[w].disconnect # results[w].disconnect

\* What the call of disconnect by a member w of its room does in its first run.
C12_LeaveStep(w) ==
    LET r == sockets[w].room
        list == active_connections[r]
        rest == remove(list, w)
    IN  /\ \A q \in DOMAIN active_connections \ {r} :
               q \in DOMAIN active_connections' /\ active_connections'[q] = active_connections[q]
        /\ DOMAIN active_connections' \subseteq DOMAIN active_connections
        /\ IF rest = << >>
           THEN r \notin DOMAIN active_connections'
           ELSE /\ r \in DOMAIN active_connections'
                /\ active_connections'[r] = rest
                /\ \A i \in 1 .. Len(rest) :
                       sockets[rest[i]].state = "open" =>
                           sockets'[rest[i]].inbox = Append(sockets[rest[i]].inbox, PEER_LEFT)

C12_NoEmptyRoom == \A r \in DOMAIN active_connections : active_connections[r] # << >>

\* C12: disconnect called by a member takes that connection, and no other, out
\* of its room and leaves the other rooms alone; a member that remains keeps
\* the room's entry and, its connection being open, is sent peer_left; with no
\* member left the entry is deleted.  No entry with an empty list exists in any
\* state.
C12_DisconnectSemantics ==
    /\ [](C12_NoEmptyRoom)
    /\ [][\A w \in Sockets :
              (/\ DisconnectCalled(w)
               /\ sockets[w].room \in DOMAIN active_connections
               /\ w \in Members(active_connections[sockets[w].room])) => C12_LeaveStep(w)]_vars

\* One member has left a room of two: the other is alone in the room, with
\* peer_left received; elsewhere a room was emptied and its entry deleted.
C12_Witness ==
    \E w \in Sockets, m \in Sockets, v \in Sockets :
        /\ results[w].disconnect = "None" /\ results[w].connect = "True"
        /\ sockets[w].room \in DOMAIN active_connections
        /\ active_connections[sockets[w].room] = <<m>>
        /\ sockets[m].inbox = <<PEER_LEFT>>
        /\ results[v].disconnect = "None" /\ results[v].connect = "True"
        /\ sockets[v].room \notin DOMAIN active_connections

\* This step is a run of connection w's connect call.
ConnectRuns(w) == calls[w].op = "connect" /\ calls'[w] # calls[w]

\* C13: a connection whose connect found its room full is sent ROOM_FULL before
\* it is closed, is closed with code 1008 and with nothing sent after the
\* message, and connect returns False only after that close; the runs of the
\* refused connect, from the capacity test to the return, leave every room's
\* list as it was, and the connection is in no list in any state.
C13_Ordering ==
    \A w \in Sockets :
        /\ sockets[w].close_codes # << >> =>
               /\ sockets[w].close_codes = <<POLICY_VIOLATION>>
               /\ sockets[w].inbox = <<ROOM_FULL>>
               /\ sockets[w].state = "closed"
        /\ (calls[w].op = "connect" /\ calls[w].pc = "closing") =>
               sockets[w].close_codes = <<POLICY_VIOLATION>>
        /\ results[w].connect = "False" => sockets[w].close_codes = <<POLICY_VIOLATION>>
        /\ ROOM_FULL \in Members(sockets[w].inbox) => Refused(w)
        /\ Refused(w) =>
               \A r \in DOMAIN active_connections : w \notin Members(active_connections[r])

C13_RefusalKeepsMembers ==
    \A w \in Sockets :
        (ConnectRuns(w) /\ Refused(w)') => active_connections' = active_connections

C13_RoomFullRefusal == [](C13_Ordering) /\ [][C13_RefusalKeepsMembers]_vars

\* A third connection to a room of two, refused: ROOM_FULL received, then
\* closed with 1008, connect returned False, the two members as they were.
C13_Witness ==
    \E w \in Sockets :
        /\ results[w].connect = "False"
        /\ sockets[w].inbox = <<ROOM_FULL>>
        /\ sockets[w].close_codes = <<POLICY_VIOLATION>>
        /\ sockets[w].state = "closed"
        /\ sockets[w].room \in DOMAIN active_connections
        /\ Members(active_connections[sockets[w].room]) = Sockets \ {w}

\* This step is a run of a broadcast call of connection w (its call or a
\* resumption after a send).
BroadcastRuns(w) ==
    \/ calls[w].op = "broadcast"
           /\ <<calls'[w].op, calls'[w].idx>> # <<calls[w].op, calls[w].idx>>
    \/ calls[w].op = "none" /\ relays' # relays
           /\ (calls'[w].op = "broadcast" \/ results'[w].broadcast # results[w].broadcast)

\* The message of the broadcast that runs in this step.
BroadcastMessage(w) ==
    IF calls[w].op = "broadcast" THEN calls[w].message ELSE
    IF calls'[w].op = "broadcast" THEN calls'[w].message ELSE CHOOSE m \in Messages : TRUE

\* C14, each run of a broadcast: the lists are as they were; the only change to
\* a socket is the message, as it was passed, appended to what a member of the
\* sender's room other than the sender has received.
C14_RelayStep ==
    \A w \in Sockets :
        BroadcastRuns(w) =>
            /\ active_connections' = active_connections
            /\ \A v \in Sockets :
                   sockets'[v] # sockets[v] =>
                       /\ v # w
                       /\ sockets[w].room \in DOMAIN active_connections
                       /\ v \in Members(active_connections[sockets[w].room])
                       /\ sockets'[v] = [sockets[v] EXCEPT
                                            !.inbox = Append(@, BroadcastMessage(w))]

\* C14, the call: every member of the sender's room other than the sender,
\* its connection being open, has received the message when broadcast first
\* suspends or returns (a room has no more than one such member).
C14_CallDelivers ==
    \A w \in Sockets :
        (BroadcastRuns(w) /\ calls[w].op = "none") =>
            \A v \in Members(active_connections[sockets[w].room]) \ {w} :
                sockets[v].state = "open" =>
                    sockets'[v].inbox = Append(sockets[v].inbox, BroadcastMessage(w))

\* C14, the states: a relayed message is found only with connections that
\* were admitted to the room of another connection that has called broadcast.
C14_OnlyTheRoom ==
    \A v \in Sockets : \A m \in Messages :
        m \in Members(sockets[v].inbox) =>
            /\ results[v].connect = "True"
            /\ \E w \in Sockets \ {v} :
                   /\ sockets[w].room = sockets[v].room
                   /\ calls[w].op = "broadcast" \/ results[w].broadcast # "not_called"

C14_BroadcastDelivery ==
    /\ [](C14_OnlyTheRoom)
    /\ [][C14_RelayStep /\ C14_CallDelivers]_vars

\* A broadcast in a room of two has returned: the other member has the
\* message, the sender has nothing, a member of another room has nothing.
C14_Witness ==
    \E w \in Sockets, v \in Sockets, u \in Sockets :
        /\ results[w].broadcast = "None"
        /\ sockets[w].room \in DOMAIN active_connections
        /\ Members(active_connections[sockets[w].room]) = {w, v} /\ v # w
        /\ sockets[v].inbox = <<[type |-> "offer"]>>
        /\ sockets[w].inbox = << >>
        /\ results[u].connect = "True" /\ sockets[u].room # sockets[w].room
        /\ sockets[u].inbox = << >>

\* C15: no failure of a send to a member whose connection is gone leaves
\* broadcast, nor the disconnect that broadcasts peer_left: neither call ever
\* ends with the error of a send.
C15_SendFailuresSwallowed ==
    \A w \in Sockets :
        /\ results[w].broadcast \notin {"RuntimeError", "SendError"}
        /\ results[w].disconnect \notin {"RuntimeError", "SendError"}

\* The session a signature failure leaves: the activity stamped, one anomaly
\* for the signature, frozen for the signature; count and chain untouched.
AfterSignatureFailure(s) ==
    [s EXCEPT !.last_activity = now,
              !.anomaly_log = Append(@, [description |-> "Invalid HMAC signature",
                                          segment_count |-> s.segment_count]),
              !.status = "frozen",
              !.freeze_reason = SIGNATURE_FREEZE]

\* C16: on a live session with a key, a report whose signature is invalid is
\* answered valid=false with the signature's reason and leaves exactly the
\* session of a signature failure, the same whatever its segment_id: stale or
\* duplicate, in order, one ahead or further.  No packet-loss or sequence
\* anomaly is logged for it and nothing is appended to the chain.
C16_SignatureBeforeSequencing ==
    \A x \in DOMAIN SESSIONS : \A r \in Reports(x) :
        LET s == SESSIONS[x]
            o == Outcome(x, r)
        IN  (Live(s) /\ s.session_key # None /\ ~SignatureValid(s, r)) =>
                /\ o.session = AfterSignatureFailure(s)
                /\ o.resp.code = 200
                /\ o.resp.body.valid = FALSE
                /\ o.resp.body.reason = SIGNATURE_FREEZE

\* A session with segments 1 to 3 accepted that a report with an invalid
\* signature froze: its only anomaly is the signature's, logged at count 3.
C16_Witness ==
    \E x \in DOMAIN SESSIONS :
        /\ SESSIONS[x].status = "frozen"
        /\ SESSIONS[x].freeze_reason = SIGNATURE_FREEZE
        /\ SESSIONS[x].segment_count = 3
        /\ ChainIds(SESSIONS[x]) = {1, 2, 3}
        /\ SESSIONS[x].anomaly_log =
               <<[description |-> "Invalid HMAC signature", segment_count |-> 3]>>

\* C17: at any time after a record was saved, load returns a record equal to
\* the saved one in every field, created_at included: its to_dict is the row.
C17_RoundTrip ==
    \A x \in DOMAIN sessions_table :
        to_dict(load(x, now)) = sessions_table[x]

\* C18: with every connection's peer still there (no send fails), whatever the
\* interleaving of connect, disconnect and broadcast calls, no disconnect call
\* ends with an error, a connection whose disconnect has returned is in no
\* room's list, and no room entry has an empty list.
C18_DisconnectCompletes ==
    (\A v \in Sockets : sockets[v].state # "dropped") =>
        /\ \A w \in Sockets :
               /\ results[w].disconnect \in {"not_called", "None"}
               /\ results[w].disconnect = "None" =>
                      \A r \in DOMAIN active_connections :
                          w \notin Members(active_connections[r])
        /\ \A r \in DOMAIN active_connections : active_connections[r] # << >>

\* The shape of a session's chain.
C19_Shape(s) ==
    /\ \A i \in 1 .. Len(s.hash_chain), j \in 1 .. Len(s.hash_chain) :
           i < j => s.hash_chain[i].segment_id < s.hash_chain[j].segment_id
    /\ Len(s.hash_chain) <= s.segment_count
    /\ s.segment_count = IF s.hash_chain = << >> THEN 0
                         ELSE s.hash_chain[Len(s.hash_chain)].segment_id

\* C19: in every state the segment ids of a session's hash_chain increase
\* strictly along the list, the chain has at most segment_count entries and
\* segment_count is the id of the last entry, 0 for an empty chain; and every
\* step leaves the entries a chain had where and as they were.
C19_ChainShape ==
    /\ [](\A x \in DOMAIN SESSIONS : C19_Shape(SESSIONS[x]))
    /\ [][\A x \in DOMAIN SESSIONS :
              /\ x \in DOMAIN SESSIONS'
              /\ Len(SESSIONS'[x].hash_chain) >= Len(SESSIONS[x].hash_chain)
              /\ SubSeq(SESSIONS'[x].hash_chain, 1, Len(SESSIONS[x].hash_chain))
                     = SESSIONS[x].hash_chain]_vars

\* A chain with a gap on a session still active after a later report: segments
\* 1 and 3 accepted, 2 dropped.
C19_Witness ==
    \E x \in DOMAIN SESSIONS :
        /\ Len(SESSIONS[x].hash_chain) = 2
        /\ ChainIds(SESSIONS[x]) = {1, 3}
        /\ SESSIONS[x].segment_count = 3
        /\ SESSIONS[x].last_activity > 0
        /\ SESSIONS[x].status = "active"

\* The pairs of the example: segments 1 and 12, hashes "23ab" and "3ab".
BindSegIds == {1, 12}
BindHashes == {"23ab", "3ab"}

\* C20: for a session, two reports with different (segment_id, hash) pairs
\* never have the same signed message, and the signature of one pair under the
\* session's key is not accepted by verify_signature for the other.
C20_MessageBindsPair ==
    \A x \in DOMAIN SESSIONS :
        \A g1 \in BindSegIds, g2 \in BindSegIds, h1 \in BindHashes, h2 \in BindHashes :
            (<<g1, h1>> # <<g2, h2>> /\ SESSIONS[x].session_key # None) =>
                /\ Message(x, g1, h1) # Message(x, g2, h2)
                /\ ~verify_signature(SESSIONS[x], g2, h2,
                        HMAC(SESSIONS[x].session_key, Message(x, g1, h1))).ret

\* The credential ids a reauth is tried with: those of the model and one that
\* is never registered.
PresentedCredIds == CredIds \cup {"c9"}

\* C21, the transition: a step that takes a frozen session to active has a
\* registered credential behind it and does what a reauth does: status active,
\* freeze_reason cleared, last_activity now, the rest as it was.
C21_OnlyReauthUnfreezes ==
    \A x \in DOMAIN SESSIONS :
        (/\ SESSIONS[x].status = "frozen"
         /\ x \in DOMAIN SESSIONS'
         /\ SESSIONS'[x].status = "active") =>
            /\ WEBAUTHN_CREDENTIALS # {}
            /\ \E c \in WEBAUTHN_CREDENTIALS :
                   SESSIONS' = reauthenticate_session_sessions(x, c)
            /\ SESSIONS'[x] = [SESSIONS[x] EXCEPT !.status = "active",
                                                  !.freeze_reason = None,
                                                  !.last_activity = now]

\* C21, the calls: no segment report takes a frozen session to active; a
\* reauth with a registered credential does; a reauth that names an unknown
\* session is answered 404, one with an unregistered credential 401, and both
\* leave every session as it was.
C21_ReauthCalls ==
    /\ \A x \in DOMAIN SESSIONS : \A r \in Reports(x) :
           SESSIONS[x].status = "frozen" => Outcome(x, r).session.status # "active"
    /\ \A x \in SessionIds : \A c \in PresentedCredIds :
           LET resp == reauthenticate_session_response(x, c)
               after == reauthenticate_session_sessions(x, c)
           IN  IF ~known(x)
               THEN resp.code = 404 /\ after = SESSIONS
               ELSE IF c \notin WEBAUTHN_CREDENTIALS
               THEN resp.code = 401 /\ after = SESSIONS
               ELSE /\ resp.code = 200
                    /\ after[x].status = "active"
                    /\ DOMAIN after = DOMAIN SESSIONS

C21_ReauthIsTheOnlyWayBack == [](C21_ReauthCalls) /\ [][C21_OnlyReauthUnfreezes]_vars

\* A session frozen by a sequence break and reactivated by a reauth, with a
\* credential registered.
C21_Witness ==
    \E x \in DOMAIN SESSIONS :
        /\ SESSIONS[x].status = "active"
        /\ SESSIONS[x].freeze_reason = None
        /\ "Non-sequential segment" \in Descriptions(SESSIONS[x])
        /\ WEBAUTHN_CREDENTIALS # {}

\* C22: a verify_hash call that names no known session is answered 404, one
\* that names a frozen or a terminated session 403; either leaves SESSIONS as
\* it was, every field of every session (last_activity and anomaly_log
\* included), and no session is made.
C22_RefusedReportsChangeNothing ==
    \A x \in SessionIds : \A r \in Reports(x) :
        LET resp == verify_hash_response(x, r.segment_id, r.hash, r.signature)
            after == verify_hash_sessions(x, r.segment_id, r.hash, r.signature)
        IN  /\ ~known(x) => (resp.code = 404 /\ after = SESSIONS)
            /\ (known(x) /\ SESSIONS[x].status \in {"frozen", "terminated"}) =>
                   (resp.code = 403 /\ after = SESSIONS)

\* A session frozen by a signature failure some time ago, and a session id
\* that names no session.
C22_Witness ==
    \E x \in DOMAIN SESSIONS :
        /\ SESSIONS[x].status = "frozen"
        /\ SESSIONS[x].freeze_reason = SIGNATURE_FREEZE
        /\ SESSIONS[x].last_activity < now
        /\ SessionIds \ DOMAIN SESSIONS # {}

====
